---- MODULE Spec2Model ----
(***************************************************************************)
(* Model of app.py (Property-viewer): the bounding box value type, the     *)
(* count-then-paginate fetch fetch_features_geojson, the st.cache_data     *)
(* memoisation around it (ttl=300, keyed on the call's arguments) and the  *)
(* zoom/area gate of main().                                               *)
(*                                                                         *)
(* Coordinates are whole degrees; a feature is the 1-based position the    *)
(* remote gives it (offset + j); time is whole seconds.                    *)
(***************************************************************************)
EXTENDS Integers, Sequences, FiniteSets, TLC

\* ---------------------------------------------------------------- constants
LonLimit == 180
LatLimit == 90
TTL == 300
MaxAreaDeg2 == 2
DefaultPageSize == 1000

\* ------------------------------------------------------------------- bounds
MaxTotal == 6
MaxChunk == 4
MaxCap == 5
MaxPageSize == 3
MaxCalls == 2
MaxTicks == 2

\* ------------------------------------------------------------------ helpers
Min(a, b) == IF a <= b THEN a ELSE b
Max(a, b) == IF a >= b THEN a ELSE b

\* int(math.ceil(a / b)) for b >= 1
CeilDiv(a, b) == -((-a) \div b)

\* Python's s[:t]: a negative t counts from the end
Slice(s, t) ==
  IF t >= 0 THEN SubSeq(s, 1, Min(t, Len(s)))
  ELSE SubSeq(s, 1, Max(0, Len(s) + t))

\* the j-th feature of a page is the remote's record offset + j
Chunk(offset, k) == [j \in 1..k |-> offset + j]

\* --------------------------------------------------------------------- BBox
\* bbox=None, a request without geometry parameters, and "no value returned"
NoBBox == [none |-> TRUE]
NoGeometry == [none |-> TRUE]
None == <<-1>>

BBox(w, s, e, n) == [west |-> w, south |-> s, east |-> e, north |-> n]

to_envelope(b) == [xmin |-> b.west, ymin |-> b.south, xmax |-> b.east, ymax |-> b.north]

\* faulty variant: the coordinates are left in the order given
normalizedNoSwap(b) == b

normalized(b) ==
  BBox(Min(b.west, b.east), Min(b.south, b.north),
       Max(b.west, b.east), Max(b.south, b.north))

clamp(b) ==
  BBox(Max(-LonLimit, Min(LonLimit, b.west)),
       Max(-LatLimit, Min(LatLimit, b.south)),
       Max(-LonLimit, Min(LonLimit, b.east)),
       Max(-LatLimit, Min(LatLimit, b.north)))

approx_area_deg2(b) ==
  LET c == clamp(normalized(b))
  IN  Max(0, (c.east - c.west) * (c.north - c.south))

\* the "geometry" parameter of _arcgis_count and _arcgis_query_geojson
Geometry(bbox) ==
  IF bbox = NoBBox THEN NoGeometry ELSE to_envelope(clamp(normalized(bbox)))

\* ---------------------------------------------------------------- scenarios
\* The inputs the environment draws from.  Three families of runs share the
\* same actions: pagination (one call; many caps, page sizes and remote
\* answers), caching (several calls over time, a few keys) and bounding boxes
\* (one call; every box over a coordinate grid).
LonVals == {-181, -180, 0, 1, 3, 181}
LatVals == {-91, 0, 1, 91}

AllBoxes == {BBox(w, s, e, n) : w \in LonVals, s \in LatVals, e \in LonVals, n \in LatVals}

\* a rectangle, the same given with west/east swapped, and one whose east lies
\* outside the valid range and clamps to the first
CacheBoxes == {BBox(179, 0, 180, 1), BBox(180, 0, 179, 1), BBox(179, 0, 181, 1)}

Schenectady == "COUNTY_NAME = 'Schenectady'"
Albany == "COUNTY_NAME = 'Albany'"

ScenarioFetch ==
  [ name |-> "fetch",
    wheres |-> {Schenectady},
    bboxes |-> {NoBBox, BBox(1, 0, 0, 1)},
    caps |-> -1..MaxCap,
    page_sizes |-> 1..MaxPageSize,
    render_bboxes |-> {NoBBox, BBox(1, 0, 0, 1)},
    slider_caps |-> {500},
    zooms |-> {12, 13},
    min_zooms |-> {13},
    totals |-> 0..MaxTotal,
    chunks |-> 0..MaxChunk,
    max_calls |-> 1,
    max_ticks |-> 1,
    tick_steps |-> {1} ]

ScenarioCache ==
  [ name |-> "cache",
    wheres |-> {Schenectady, Albany},
    bboxes |-> CacheBoxes,
    caps |-> {1},
    page_sizes |-> {1},
    render_bboxes |-> {BBox(179, 0, 180, 1), BBox(0, 0, 3, 1)},
    slider_caps |-> {500},
    zooms |-> {13},
    min_zooms |-> {13},
    totals |-> {1},
    chunks |-> 0..1,
    max_calls |-> MaxCalls,
    max_ticks |-> MaxTicks,
    tick_steps |-> {1, TTL - 1} ]

ScenarioBBox ==
  [ name |-> "bbox",
    wheres |-> {Schenectady, Albany},
    bboxes |-> {NoBBox} \cup AllBoxes,
    caps |-> {2},
    page_sizes |-> {1},
    render_bboxes |-> {NoBBox} \cup AllBoxes,
    slider_caps |-> {500},
    zooms |-> {10, 12, 13},
    min_zooms |-> {10, 13},
    totals |-> 0..2,
    chunks |-> 0..1,
    max_calls |-> 1,
    max_ticks |-> 1,
    tick_steps |-> {1} ]

LayerUrl == "NYS_Tax_Parcel_Centroid_Points/FeatureServer/0"
OutFields == "PARCEL_ADDR,PRIMARY_OWNER,PRINT_KEY,SBL"

\* -------------------------------------------------------------------- state
VARIABLES
  scenario,   \* the name of this run's family of inputs (never changes)
  clock,      \* seconds since start
  ticks,      \* how many times the clock advanced
  ncalls,     \* how many renders / calls were started
  cache,      \* st.cache_data's store: a set of [key, value, at, args]
  pc,         \* "idle" | "count" | "page": where the running fetch stands
  args,       \* the arguments of the running fetch_features_geojson call
  total,      \* fetch_features_geojson's locals
  target,
  pages,
  i,
  features,
  reqs,       \* the HTTP requests of the current call, with their responses
  cur,        \* the current (or last) render / call and its outcome
  prev,       \* the arguments and outcome of the one before it
  cache0      \* the store as the current call found it

vars == <<scenario, clock, ticks, ncalls, cache, pc, args, total, target, pages, i,
          features, reqs, cur, prev, cache0>>

\* the input sets of this run
Inputs ==
  CASE scenario = "fetch" -> ScenarioFetch
    [] scenario = "cache" -> ScenarioCache
    [] OTHER -> ScenarioBBox

NoArgs == [layer_url |-> "", where |-> "", out_fields |-> "", bbox |-> NoBBox,
           max_features |-> 0, page_size |-> 0]

Args(w, b, mf, ps) ==
  [layer_url |-> LayerUrl, where |-> w, out_fields |-> OutFields, bbox |-> b,
   max_features |-> mf, page_size |-> ps]

\* entry: "render" (main) or "call" (the function called directly);
\* gate: main's decision ("none" for a direct call); lookups: cache lookups made;
\* outcome: "running" | "ok" | "error" | "stopped"; stored: when the result was stored
CallEntry(entry, a, z, mz, g, looked, hit, outcome, result) ==
  [entry |-> entry, args |-> a, zoom |-> z, min_zoom |-> mz, start |-> clock, gate |-> g,
   lookups |-> looked, hit |-> hit, outcome |-> outcome, result |-> result, stored |-> -1]

NoCall ==
  [entry |-> "none", args |-> NoArgs, zoom |-> 0, min_zoom |-> 0, start |-> 0, gate |-> "none",
   lookups |-> 0, hit |-> FALSE, outcome |-> "none", result |-> None, stored |-> -1]

InitWith(sc) ==
  /\ scenario = sc.name
  /\ clock = 0
  /\ ticks = 0
  /\ ncalls = 0
  /\ cache = {}
  /\ pc = "idle"
  /\ args = NoArgs
  /\ total = 0
  /\ target = 0
  /\ pages = 0
  /\ i = 0
  /\ features = <<>>
  /\ reqs = <<>>
  /\ cur = NoCall
  /\ prev = [args |-> NoArgs, outcome |-> "none"]
  /\ cache0 = {}

Init == InitWith(ScenarioFetch)
InitCache == InitWith(ScenarioCache)
InitBBox == InitWith(ScenarioBBox)

\* ---------------------------------------------------------- st.cache_data
\* the key is the hash of the arguments as passed (BBox is hashed field by field)
\* variant: the key holds the box after normalize-then-clamp
CacheKeyCanonical(a) ==
  [a EXCEPT !.bbox = IF a.bbox = NoBBox THEN NoBBox ELSE clamp(normalized(a.bbox))]

CacheKey(a) == a

\* an entry stored at time at is served while now < at + ttl
\* faulty variant: an entry is still served at age ttl
LiveInclusive(at, now) == now - at <= TTL

Live(at, now) == now - at < TTL

Lookup(key, now) == {e \in cache : e.key = key /\ Live(e.at, now)}

Store(a, value, now) ==
  {e \in cache : e.key # CacheKey(a)}
    \cup {[key |-> CacheKey(a), value |-> value, at |-> now, args |-> a]}

\* ------------------------------------------------------------ HTTP requests
CountRequest(a, status, count) ==
  [kind |-> "count", layer_url |-> a.layer_url, where |-> a.where,
   out_fields |-> "", geometry |-> Geometry(a.bbox), rc |-> 0, offset |-> 0,
   status |-> status, count |-> count, chunk |-> <<>>]

PageRequest(a, rc, offset, status, chunk) ==
  [kind |-> "page", layer_url |-> a.layer_url, where |-> a.where,
   out_fields |-> a.out_fields, geometry |-> Geometry(a.bbox), rc |-> rc, offset |-> offset,
   status |-> status, count |-> 0, chunk |-> chunk]

\* ------------------------------------------------- fetch_features_geojson
Target(t, max_features) == Min(t, max_features)

Pages(tg, page_size) == CeilDiv(tg, page_size)

Offset(k, page_size) == k * page_size

\* faulty variant: every page asks for a full page
RecordCountFullPage(k, tg, page_size) == page_size

RecordCount(k, tg, page_size) == Min(page_size, tg - Offset(k, page_size))

\* faulty variant: the loop never stops early
BreakNever(fs, tg) == FALSE

Break(fs, tg) == Len(fs) >= tg

\* faulty variant: the accumulator is returned whole
ResultUntruncated(fs, tg) == fs

Result(fs, tg) == Slice(fs, tg)

Finish(outcome, result, stored) ==
  cur' = [cur EXCEPT !.outcome = outcome, !.result = result, !.stored = stored]

ResetLocals ==
  /\ args' = NoArgs
  /\ total' = 0
  /\ target' = 0
  /\ pages' = 0
  /\ i' = 0
  /\ features' = <<>>

\* the function returns fs: the wrapper stores it under the call's key
Return(fs) ==
  /\ cache' = Store(args, fs, clock)
  /\ Finish("ok", fs, clock)
  /\ pc' = "idle"
  /\ ResetLocals

\* faulty variants of Raise: the failure is swallowed and what was accumulated is
\* returned; the failure is raised but an empty result is memoised
RaiseSwallowed == Return(Result(features, target))

RaiseMemoised ==
  /\ cache' = Store(args, <<>>, clock)
  /\ Finish("error", None, -1)
  /\ pc' = "idle"
  /\ ResetLocals

\* raise_for_status / a transport error propagates out of the function
Raise ==
  /\ Finish("error", None, -1)
  /\ pc' = "idle"
  /\ ResetLocals
  /\ UNCHANGED cache

\* a render or call begins: the previous one's record and requests give way
Begin ==
  /\ prev' = [args |-> cur.args, outcome |-> cur.outcome]
  /\ cache0' = cache
  /\ reqs' = <<>>
  /\ ncalls' = ncalls + 1

\* the cached function is called with arguments a
Enter(entry, z, mz, g, a) ==
  LET found == Lookup(CacheKey(a), clock)
  IN  IF found # {}
      THEN /\ cur' = CallEntry(entry, a, z, mz, g, 1, TRUE, "ok",
                               (CHOOSE e \in found : TRUE).value)
           /\ UNCHANGED <<cache, pc, args, total, target, pages, i, features>>
      ELSE /\ cur' = CallEntry(entry, a, z, mz, g, 1, FALSE, "running", None)
           /\ pc' = "count"
           /\ args' = a
           /\ UNCHANGED <<cache, total, target, pages, i, features>>

\* ------------------------------------------------------------------- main
\* faulty variant: the area check comes before the zoom check
GateAreaFirst(current_zoom, min_zoom, bbox) ==
  IF bbox # NoBBox /\ approx_area_deg2(bbox) > MaxAreaDeg2 THEN "ViewportTooLarge"
  ELSE IF current_zoom < min_zoom THEN "TooFarZoomedOut"
  ELSE "Proceed"

Gate(current_zoom, min_zoom, bbox) ==
  IF current_zoom < min_zoom THEN "TooFarZoomedOut"
  ELSE IF bbox # NoBBox /\ approx_area_deg2(bbox) > MaxAreaDeg2 THEN "ViewportTooLarge"
  ELSE "Proceed"

\* ------------------------------------------------------------------ actions
\* one run of main(): the gate, then the cached call
Render ==
  /\ pc = "idle"
  /\ ncalls < Inputs.max_calls
  /\ \E current_zoom \in Inputs.zooms, min_zoom \in Inputs.min_zooms,
        bbox \in Inputs.render_bboxes, where \in Inputs.wheres,
        max_features \in Inputs.slider_caps :
       LET g == Gate(current_zoom, min_zoom, bbox)
           a == Args(where, bbox, max_features, DefaultPageSize)
       IN  IF g # "Proceed"
           THEN /\ cur' = CallEntry("render", a, current_zoom, min_zoom, g, 0, FALSE,
                                    "stopped", None)
                /\ UNCHANGED <<cache, pc, args, total, target, pages, i, features>>
           ELSE Enter("render", current_zoom, min_zoom, g, a)
  /\ Begin
  /\ UNCHANGED <<scenario, clock, ticks>>

\* fetch_features_geojson called directly
CallFetch ==
  /\ pc = "idle"
  /\ ncalls < Inputs.max_calls
  /\ \E where \in Inputs.wheres, bbox \in Inputs.bboxes, max_features \in Inputs.caps,
        page_size \in Inputs.page_sizes :
       Enter("call", 0, 0, "none", Args(where, bbox, max_features, page_size))
  /\ Begin
  /\ UNCHANGED <<scenario, clock, ticks>>

\* _arcgis_count answers t
CountOk ==
  /\ pc = "count"
  /\ \E t \in Inputs.totals :
       /\ reqs' = Append(reqs, CountRequest(args, "ok", t))
       /\ IF t <= 0
          THEN Return(<<>>)
          ELSE LET tg == Target(t, args.max_features)
                   pg == Pages(tg, args.page_size)
               IN  IF pg <= 0
                   THEN Return(Result(<<>>, tg))
                   ELSE /\ pc' = "page"
                        /\ total' = t
                        /\ target' = tg
                        /\ pages' = pg
                        /\ i' = 0
                        /\ features' = <<>>
                        /\ UNCHANGED <<cache, args, cur>>
  /\ UNCHANGED <<scenario, clock, ticks, ncalls, prev, cache0>>

CountFail ==
  /\ pc = "count"
  /\ reqs' = Append(reqs, CountRequest(args, "fail", 0))
  /\ Raise
  /\ UNCHANGED <<scenario, clock, ticks, ncalls, prev, cache0>>

\* page i answers k features
PageOk ==
  /\ pc = "page"
  /\ \E k \in Inputs.chunks :
       LET offset == Offset(i, args.page_size)
           rc == RecordCount(i, target, args.page_size)
           chunk == Chunk(offset, k)
           fs == features \o chunk
       IN  /\ reqs' = Append(reqs, PageRequest(args, rc, offset, "ok", chunk))
           /\ IF Break(fs, target) \/ i + 1 >= pages
              THEN Return(Result(fs, target))
              ELSE /\ i' = i + 1
                   /\ features' = fs
                   /\ UNCHANGED <<cache, pc, args, total, target, pages, cur>>
  /\ UNCHANGED <<scenario, clock, ticks, ncalls, prev, cache0>>

PageFail ==
  /\ pc = "page"
  /\ reqs' = Append(reqs, PageRequest(args, RecordCount(i, target, args.page_size),
                                      Offset(i, args.page_size), "fail", <<>>))
  /\ Raise
  /\ UNCHANGED <<scenario, clock, ticks, ncalls, prev, cache0>>

Tick ==
  /\ ticks < Inputs.max_ticks
  /\ \E d \in Inputs.tick_steps : clock' = clock + d
  /\ ticks' = ticks + 1
  /\ UNCHANGED <<scenario, ncalls, cache, pc, args, total, target, pages, i, features,
                 reqs, cur, prev, cache0>>

Next ==
  \/ Render
  \/ CallFetch
  \/ CountOk
  \/ CountFail
  \/ PageOk
  \/ PageFail
  \/ Tick

Spec == Init /\ [][Next]_vars
SpecCache == InitCache /\ [][Next]_vars
SpecBBox == InitBBox /\ [][Next]_vars

\* =================================================================== claims
IsPage(r) == r.kind = "page"
PageReqs == SelectSeq(reqs, IsPage)

RECURSIVE Concat(_)
Concat(rs) == IF rs = <<>> THEN <<>> ELSE rs[1].chunk \o Concat(Tail(rs))

\* every feature the pages of this call returned, in the order received
Received == Concat(PageReqs)

\* the number of features received in the first j pages
Cumulative(j) == Len(Concat(SubSeq(PageReqs, 1, j)))

\* the total the count request of this call reported
Reported == reqs[1].count

\* the fetch body ran (no cache hit) and returned a collection
Returned == cur.outcome = "ok" /\ ~cur.hit /\ reqs # <<>>

Exact == \A j \in 1..Len(PageReqs) : PageReqs[j].status = "ok" /\ Len(PageReqs[j].chunk) = PageReqs[j].rc

Failed == \E j \in 1..Len(reqs) : reqs[j].status = "fail"

\* C1: a fetch that returns, with max_features >= 1 and page_size >= 1, returns
\* at most min(total, max_features) features, whatever each page returned.
C1_LengthWithinCap ==
  (Returned /\ cur.args.max_features >= 1 /\ cur.args.page_size >= 1) =>
    /\ Len(cur.result) <= Min(Reported, cur.args.max_features)
    /\ Len(cur.result) <= cur.args.max_features

\* a page returned more than asked, the remote has more than the cap, and the
\* result holds exactly cap features
C1_Witness ==
  /\ Returned
  /\ cur.args.max_features = 3
  /\ Reported > 3
  /\ \E j \in 1..Len(PageReqs) : Len(PageReqs[j].chunk) > PageReqs[j].rc
  /\ Len(cur.result) = 3

\* C2: against a remote that returns exactly resultRecordCount features per page,
\* the fetch issues ceil(target / page_size) page requests, the j-th (from 0) with
\* resultOffset j * page_size and resultRecordCount min(page_size, target - j * page_size),
\* in increasing j, and returns exactly the target features in page order.
C2_ExactPagination ==
  (Returned /\ Reported >= 1 /\ cur.args.max_features >= 1 /\ cur.args.page_size >= 1 /\ Exact) =>
    LET ps == cur.args.page_size
        tg == Min(Reported, cur.args.max_features)
        n == CeilDiv(tg, ps)
    IN  /\ Len(reqs) = n + 1
        /\ reqs[1].kind = "count"
        /\ Len(PageReqs) = n
        /\ \A j \in 1..n :
             /\ PageReqs[j].offset = (j - 1) * ps
             /\ PageReqs[j].rc = Min(ps, tg - (j - 1) * ps)
        /\ cur.result = Received
        /\ cur.result = [x \in 1..tg |-> x]

\* the scaled form of max_features=2500, total=10000, page_size=1000:
\* cap 5, total 6, page size 2 give offsets 0,2,4 with counts 2,2,1 and 5 features
C2_Witness ==
  /\ Returned
  /\ Exact
  /\ cur.args.max_features = 5
  /\ cur.args.page_size = 2
  /\ Reported = 6
  /\ Len(PageReqs) = 3
  /\ PageReqs[3].offset = 4
  /\ PageReqs[3].rc = 1
  /\ cur.result = <<1, 2, 3, 4, 5>>

\* C3: a failed count or page request ends the fetch in an error: nothing is
\* returned (not even the features of earlier pages) and no request follows it.
C3_NoPartialResult ==
  /\ \A j \in 1..Len(reqs) :
       reqs[j].status = "fail" =>
         /\ j = Len(reqs)
         /\ pc = "idle"
         /\ cur.outcome = "error"
         /\ cur.result = None
  /\ cur.outcome = "error" => (cur.result = None /\ Failed)

\* two pages delivered features, then the third request failed
C3_Witness ==
  /\ cur.outcome = "error"
  /\ Len(reqs) = 4
  /\ reqs[2].chunk # <<>>
  /\ reqs[3].chunk # <<>>
  /\ reqs[4].status = "fail"

\* C6 (as claimed): a fetch with max_features <= 0 returns an empty collection
\* without any network call, neither the count request nor a page request.
C6_NoNetworkCall ==
  (cur.lookups = 1 /\ cur.args.max_features <= 0) =>
    /\ reqs = <<>>
    /\ pc = "idle" => (cur.outcome = "ok" /\ cur.result = <<>>)

\* C10: no page request is issued once the features received reach the target,
\* even when fewer pages than planned were requested; the result is the first
\* target features received.
C10_EarlyStop ==
  (cur.lookups = 1 /\ ~cur.hit /\ reqs # <<>> /\ reqs[1].status = "ok"
     /\ cur.args.max_features >= 1 /\ Reported >= 1) =>
    LET tg == Min(Reported, cur.args.max_features)
        planned == CeilDiv(tg, cur.args.page_size)
        n == Len(PageReqs)
    IN  /\ n <= planned
        /\ \A j \in 1..n : Cumulative(j) >= tg => j = n
        /\ pc = "page" => Len(Received) < tg
        /\ (Len(Received) >= tg /\ ~Failed) =>
             /\ pc = "idle"
             /\ cur.outcome = "ok"
             /\ cur.result = SubSeq(Received, 1, tg)

\* three pages were planned, the first returned four features for one asked:
\* one page request, the first three features returned
C10_Witness ==
  /\ Returned
  /\ cur.args.max_features = 3
  /\ cur.args.page_size = 1
  /\ Reported >= 3
  /\ Len(PageReqs) = 1
  /\ PageReqs[1].rc = 1
  /\ Len(PageReqs[1].chunk) = 4
  /\ cur.result = <<1, 2, 3>>

\* the entries the current call found stored under its own arguments, and
\* those among them younger than the TTL
Stored0 == {e \in cache0 : e.args = cur.args}
Fresh0 == {e \in Stored0 : cur.start - e.at < TTL}

\* C4: a call whose arguments (layer URL, filter, output fields, bounding box,
\* cap) equal those of an entry stored less than TTL = 300 seconds earlier
\* returns the stored collection and issues no count and no page request; with
\* no such entry (none stored, or stored 300 seconds or more ago) the
\* underlying fetch runs again, starting with the count request.
C4_HitWithinTtl ==
  cur.lookups = 1 =>
    /\ Fresh0 # {} =>
         /\ cur.hit
         /\ reqs = <<>>
         /\ pc = "idle"
         /\ cur.outcome = "ok"
         /\ \A e \in Fresh0 : cur.result = e.value
         /\ cache = cache0
    /\ Fresh0 = {} =>
         /\ ~cur.hit
         /\ pc = "idle" => (reqs # <<>> /\ reqs[1].kind = "count")

\* a hit on a non-empty collection stored 299 seconds before the call
C4_Witness ==
  /\ cur.lookups = 1
  /\ cur.hit
  /\ reqs = <<>>
  /\ cur.result = <<1>>
  /\ \E e \in Stored0 : cur.start - e.at = TTL - 1

\* C5: a call whose underlying fetch fails leaves the store as it found it,
\* with no servable entry for its key and no stored error; the next call with
\* the same key runs the underlying fetch again.
C5_FailureNotCached ==
  /\ Failed =>
       /\ cache = cache0
       /\ cur.outcome = "error"
       /\ ~\E e \in cache : e.args = cur.args /\ clock - e.at < TTL
  /\ \A e \in cache : e.value # None
  /\ (prev.outcome = "error" /\ cur.lookups = 1 /\ cur.args = prev.args) =>
       /\ ~cur.hit
       /\ pc = "idle" => (reqs # <<>> /\ reqs[1].kind = "count")

\* a call failed in its page request; the next call with the same key fetched
\* again and got a collection
C5_Witness ==
  /\ prev.outcome = "error"
  /\ cur.args = prev.args
  /\ cur.entry = "render"
  /\ Returned
  /\ cur.result = <<1>>
  /\ cur.stored = clock

\* normalize-then-clamp, as the claims state it
Canonical(b) ==
  IF b = NoBBox THEN NoBBox
  ELSE BBox(Max(-LonLimit, Min(LonLimit, Min(b.west, b.east))),
            Max(-LatLimit, Min(LatLimit, Min(b.south, b.north))),
            Max(-LonLimit, Min(LonLimit, Max(b.west, b.east))),
            Max(-LatLimit, Min(LatLimit, Max(b.south, b.north))))

SameButBBox(a, b) == [a EXCEPT !.bbox = NoBBox] = [b EXCEPT !.bbox = NoBBox]

\* the entries younger than the TTL whose arguments equal the current call's
\* up to the bounding box, which is equal after normalize-then-clamp
CanonicalFresh0 ==
  {e \in cache0 : /\ SameButBBox(e.args, cur.args)
                  /\ Canonical(e.args.bbox) = Canonical(cur.args.bbox)
                  /\ cur.start - e.at < TTL}

C7_GateFirst ==
  cur.entry = "render" =>
    LET tooFar == cur.zoom < cur.min_zoom
        tooLarge == cur.args.bbox # NoBBox /\ approx_area_deg2(cur.args.bbox) > MaxAreaDeg2
    IN  /\ tooFar => cur.gate = "TooFarZoomedOut"
        /\ (~tooFar /\ tooLarge) => cur.gate = "ViewportTooLarge"
        /\ (~tooFar /\ ~tooLarge) => cur.gate = "Proceed"
        /\ cur.gate # "Proceed" =>
             /\ cur.lookups = 0
             /\ reqs = <<>>
             /\ pc = "idle"
             /\ cache = cache0
             /\ cur.outcome = "stopped"
        /\ cur.gate = "Proceed" => cur.lookups = 1

\* zoomed out too far over a box that is also too large: the zoom check decides
C7_Witness ==
  /\ cur.entry = "render"
  /\ cur.zoom < cur.min_zoom
  /\ cur.args.bbox # NoBBox
  /\ approx_area_deg2(cur.args.bbox) > MaxAreaDeg2
  /\ cur.gate = "TooFarZoomedOut"
  /\ cur.lookups = 0
  /\ reqs = <<>>

\* C9: for any input box the envelope of every count and page request is the
\* box after normalize-then-clamp, with xmin <= xmax, ymin <= ymax, x within
\* [-180, 180] and y within [-90, 90]; all requests of one fetch carry the same
\* envelope and the same filter.
C9_EnvelopeValid ==
  \A j \in 1..Len(reqs) :
    /\ reqs[j].where = cur.args.where
    /\ reqs[j].geometry = reqs[1].geometry
    /\ cur.args.bbox = NoBBox => reqs[j].geometry = NoGeometry
    /\ cur.args.bbox # NoBBox =>
         LET g == reqs[j].geometry
             c == Canonical(cur.args.bbox)
         IN  /\ g = [xmin |-> c.west, ymin |-> c.south, xmax |-> c.east, ymax |-> c.north]
             /\ g.xmin <= g.xmax
             /\ g.ymin <= g.ymax
             /\ -LonLimit <= g.xmin /\ g.xmax <= LonLimit
             /\ -LatLimit <= g.ymin /\ g.ymax <= LatLimit

\* a box given east-to-west and north-to-south, out of range on all four
\* sides, went out in the count request and in a page request
C9_Witness ==
  /\ cur.args.bbox = BBox(181, 91, -181, -91)
  /\ Len(reqs) >= 2
  /\ reqs[2].kind = "page"
  /\ reqs[2].geometry = [xmin |-> -180, ymin |-> -90, xmax |-> 180, ymax |-> 90]

====
